---- MODULE Spec2Model ----
(***************************************************************************)
(* FileService (src/src/commands/fileCommandUploadFile.ts): the transfer   *)
(* schedulers it hands out, its pending-task set, group cancellation, and  *)
(* its configuration resolution.                                           *)
(*                                                                         *)
(* The Scheduler and TransferTask classes are imported by the source file  *)
(* ('./scheduler', './transferTask') but are not part of it; the           *)
(* definitions named Scheduler... follow the Scheduler contract of the     *)
(* specification (section 4.3 and 5).                                      *)
(***************************************************************************)
EXTENDS Integers, Sequences, FiniteSets, TLC

\* ------------------------------------------------------------------ bounds
MaxSchedulers == 2
MaxTasks == 2
MaxConcurrency == 2

SchedId == 1..MaxSchedulers
TaskId == 1..MaxTasks
Outcome == {"ok", "error"}
\* the concurrency arguments createTransferScheduler is called with
Concurrencies == {1, MaxConcurrency}

VARIABLES
  schedulers,            \* FileService._schedulers: sequence of scheduler ids
  pendingTransferTasks,  \* FileService._pendingTransferTasks
  concurrency,           \* argument createTransferScheduler was called with (0: not created)
  limit,                 \* the concurrency the Scheduler was constructed with
  queue,                 \* Scheduler: tasks not yet started, FIFO
  running,               \* Scheduler: tasks started and not finished
  awaiting,              \* whether run() promises of the scheduler are not settled yet
  lastResolved,          \* the scheduler whose run() promise(s) the last step resolved (0: none)
  owner,                 \* the scheduler a task was added to (0: not added)
  before,                \* BEFORE_TRANSFER events emitted, per task
  after,                 \* AFTER_TRANSFER event emitted for the task: none, or its outcome
  cancelled,             \* cancel() calls received by a task that is still running
  queuedAtCancel         \* history: tasks that were queued, not started, at a cancelTransferTasks()

schedVars == <<schedulers, pendingTransferTasks, concurrency, limit, queue, running,
               awaiting, lastResolved, owner, before, after, cancelled,
               queuedAtCancel>>

VARIABLES
  config,                \* FileService._config: the raw configuration given to the constructor
  configValidator,       \* FileService._configValidator: unset, or the validator installed
  profile,               \* app.state.profile: the process-wide active profile selection
  env,                   \* process.env
  ignoreFileCache,       \* app.ignoreFileCache: ignoreFile path -> cached lines
  disk,                  \* the files on disk: path -> content
  result,                \* outcome of the latest getConfig() call, until an input changes
  remotes,               \* host infos createRemoteIfNoneExist was called with
  removed,               \* host infos removeRemote was called with
  watcherService,        \* FileService._watcherService (0: the built-in no-op service)
  watcherLive,           \* live watcher registrations for baseDir: [service, config]
  replacedWatcher,       \* history: the service the latest setWatcherService() replaced
  disposed,              \* the latest call was dispose(), which returned or threw; else no
  calls,                 \* history of getConfig() calls: see NoCalls
  reads                  \* history: disk reads of an ignoreFile path since its last eviction

configVars == <<config, configValidator, profile, env, ignoreFileCache, disk, result,
                remotes, removed, watcherService, watcherLive, replacedWatcher, disposed,
                calls, reads>>

VARIABLES
  upload,                \* UploadFile.handleFile per resource: the state of "await upload(...)"
  refreshed              \* refreshRemoteExplorer calls made by that handleFile invocation

uploadVars == <<upload, refreshed>>

VARIABLES
  baseDir,               \* FileService.baseDir
  asked,                 \* the path the ignore predicate was last called with (<< >>: none)
  answer                 \* what it returned

ignoreVars == <<baseDir, asked, answer>>

restVars == <<uploadVars, ignoreVars>>

vars == <<schedVars, configVars, restVars>>

\* ------------------------------------------------------------------ helpers
Range(seq) == {seq[i] : i \in 1..Len(seq)}

Min(a, b) == IF a < b THEN a ELSE b

Max(a, b) == IF a < b THEN b ELSE a

\* Array.prototype.findIndex(s => s === scheduler): first index (1-based here), -1 if absent
FindIndex(list, s) ==
  IF \E i \in 1..Len(list) : list[i] = s
    THEN CHOOSE i \in 1..Len(list) : list[i] = s /\ \A j \in 1..(i - 1) : list[j] # s
    ELSE -1

\* Array.prototype.splice(index, 1) on a 1-based position; a negative start counts
\* from the end of the array, as in JavaScript
Splice1(list, index) ==
  LET start == IF index < 0 THEN Max(Len(list) + index + 1, 1) ELSE index
  IN  [i \in 1..(Len(list) - (IF start <= Len(list) THEN 1 ELSE 0)) |->
         IF i < start THEN list[i] ELSE list[i + 1]]

\* ------------------------------------------------------------------ Scheduler
\* size: queued plus running tasks
SchedulerSize(s) == Len(queue[s]) + Cardinality(running[s])

\* start(): the number of queued tasks dispatched, up to the concurrency limit
SchedulerStartCount(s) ==
  Max(0, Min(limit[s] - Cardinality(running[s]), Len(queue[s])))

SchedulerStarted(s) == {queue[s][i] : i \in 1..SchedulerStartCount(s)}

SchedulerRest(s) == SubSeq(queue[s], SchedulerStartCount(s) + 1, Len(queue[s]))

\* empty(): removes all tasks not yet started
SchedulerEmpty(s) == << >>

\* ------------------------------------------------------------------ FileService
IsTransferring == Len(schedulers) > 0

GetPendingTransferTasks == pendingTransferTasks

StoreScheduler(list, s) == Append(list, s)

\* variant: the "index !== -1" test left out
RemoveSchedulerUnchecked(list, s) == Splice1(list, FindIndex(list, s))

RemoveScheduler(list, s) ==
  LET index == FindIndex(list, s)
  IN  IF index # -1 THEN Splice1(list, index) ELSE list

\* variant: the scheduler is built with one slot more than asked for
NewSchedulerConcurrencyPlusOne(c) == c + 1

\* new Scheduler({autoStart: false, concurrency})
NewSchedulerConcurrency(c) == c

\* variant: run() resolves without waiting for idle
RunResolvesAlways(s) == TRUE

\* variant: run() always waits for idle, also on a scheduler that holds nothing
RunResolvesNever(s) == FALSE

\* variant: "size < 0" for "size <= 0"
RunResolvesBelowZero(s) == SchedulerSize(s) < 0

\* run(): "if (scheduler.size <= 0)"
RunResolvesAtOnce(s) == SchedulerSize(s) <= 0

\* onTaskStart listener: pending set add, BEFORE_TRANSFER emit
OnTaskStartPending(pending, ts) == pending \cup ts

OnTaskStartBefore(ts) == [t \in TaskId |-> IF t \in ts THEN before[t] + 1 ELSE before[t]]

\* onTaskDone listener without "this._pendingTransferTasks.delete(task)"
OnTaskDonePendingKept(pending, t) == pending

\* onTaskDone listener: pending set delete, AFTER_TRANSFER emit
OnTaskDonePending(pending, t) == pending \ {t}

OnTaskDoneAfter(t, err) == [after EXCEPT ![t] = err]

SchedInit ==
  /\ schedulers = << >>
  /\ pendingTransferTasks = {}
  /\ concurrency = [s \in SchedId |-> 0]
  /\ limit = [s \in SchedId |-> 0]
  /\ queue = [s \in SchedId |-> << >>]
  /\ running = [s \in SchedId |-> {}]
  /\ awaiting = [s \in SchedId |-> FALSE]
  /\ lastResolved = 0
  /\ owner = [t \in TaskId |-> 0]
  /\ before = [t \in TaskId |-> 0]
  /\ after = [t \in TaskId |-> "none"]
  /\ cancelled = [t \in TaskId |-> 0]
  /\ queuedAtCancel = {}

\* a service in the middle of a transfer: createTransferScheduler(1), two add(), run()
SchedBusy ==
  /\ schedulers = <<1>>
  /\ pendingTransferTasks = {1}
  /\ concurrency = [s \in SchedId |-> IF s = 1 THEN 1 ELSE 0]
  /\ limit = [s \in SchedId |-> IF s = 1 THEN 1 ELSE 0]
  /\ queue = [s \in SchedId |-> IF s = 1 THEN <<2>> ELSE << >>]
  /\ running = [s \in SchedId |-> IF s = 1 THEN {1} ELSE {}]
  /\ awaiting = [s \in SchedId |-> s = 1]
  /\ lastResolved = 0
  /\ owner = [t \in TaskId |-> IF t \in {1, 2} THEN 1 ELSE 0]
  /\ before = [t \in TaskId |-> IF t = 1 THEN 1 ELSE 0]
  /\ after = [t \in TaskId |-> "none"]
  /\ cancelled = [t \in TaskId |-> 0]
  /\ queuedAtCancel = {}

Created(s) == concurrency[s] # 0

\* createTransferScheduler(concurrency)
CreateTransferScheduler(s, c) ==
  /\ ~Created(s)
  /\ \A r \in SchedId : r < s => Created(r)
  /\ concurrency' = [concurrency EXCEPT ![s] = c]
  /\ limit' = [limit EXCEPT ![s] = NewSchedulerConcurrency(c)]
  /\ schedulers' = StoreScheduler(schedulers, s)
  /\ lastResolved' = 0
  /\ UNCHANGED <<pendingTransferTasks, queue, running, awaiting, owner, before, after,
                 cancelled, queuedAtCancel>>
  /\ UNCHANGED configVars
  /\ UNCHANGED restVars

\* handle.add(task)
Add(s, t) ==
  /\ Created(s)
  /\ owner[t] = 0
  /\ \A u \in TaskId : u < t => owner[u] # 0
  /\ owner' = [owner EXCEPT ![t] = s]
  /\ queue' = [queue EXCEPT ![s] = Append(@, t)]
  /\ lastResolved' = 0
  /\ UNCHANGED <<schedulers, pendingTransferTasks, concurrency, limit, running, awaiting,
                 before, after, cancelled, queuedAtCancel>>
  /\ UNCHANGED configVars
  /\ UNCHANGED restVars

\* handle.run(), scheduler.size <= 0: remove the scheduler and resolve
RunEmpty(s) ==
  /\ Created(s)
  /\ RunResolvesAtOnce(s)
  /\ schedulers' = RemoveScheduler(schedulers, s)
  /\ lastResolved' = s
  /\ UNCHANGED <<pendingTransferTasks, concurrency, limit, queue, running, awaiting, owner,
                 before, after, cancelled, queuedAtCancel>>
  /\ UNCHANGED configVars
  /\ UNCHANGED restVars

\* handle.run(), otherwise: scheduler.onIdle(...); scheduler.start()
RunStart(s) ==
  /\ Created(s)
  /\ ~RunResolvesAtOnce(s)
  /\ awaiting' = [awaiting EXCEPT ![s] = TRUE]
  /\ lastResolved' = 0
  /\ running' = [running EXCEPT ![s] = @ \cup SchedulerStarted(s)]
  /\ queue' = [queue EXCEPT ![s] = SchedulerRest(s)]
  /\ pendingTransferTasks' = OnTaskStartPending(pendingTransferTasks, SchedulerStarted(s))
  /\ before' = OnTaskStartBefore(SchedulerStarted(s))
  /\ UNCHANGED <<schedulers, concurrency, limit, owner, after, cancelled, queuedAtCancel>>
  /\ UNCHANGED configVars
  /\ UNCHANGED restVars

\* a running task ends (success, failure or cancellation observed): task-done, then
\* the next queued task is dispatched, or the scheduler becomes idle
TaskFinish(t, err) ==
  \E s \in SchedId :
    /\ t \in running[s]
    /\ after' = OnTaskDoneAfter(t, err)
    /\ IF queue[s] # << >>
         THEN /\ running' = [running EXCEPT ![s] = (@ \ {t}) \cup {Head(queue[s])}]
              /\ queue' = [queue EXCEPT ![s] = Tail(@)]
              /\ pendingTransferTasks' =
                   OnTaskStartPending(OnTaskDonePending(pendingTransferTasks, t),
                                      {Head(queue[s])})
              /\ before' = OnTaskStartBefore({Head(queue[s])})
              /\ lastResolved' = 0
              /\ UNCHANGED <<schedulers, awaiting>>
         ELSE /\ running' = [running EXCEPT ![s] = @ \ {t}]
              /\ pendingTransferTasks' = OnTaskDonePending(pendingTransferTasks, t)
              /\ UNCHANGED <<queue, before>>
              /\ IF running[s] = {t}
                   THEN \* idle: the onIdle listeners of run() remove the scheduler and
                        \* resolve (tasks only run after a run() registered a listener)
                        /\ schedulers' = RemoveScheduler(schedulers, s)
                        /\ lastResolved' = IF awaiting[s] THEN s ELSE 0
                        /\ awaiting' = [awaiting EXCEPT ![s] = FALSE]
                   ELSE /\ lastResolved' = 0
                        /\ UNCHANGED <<schedulers, awaiting>>
    /\ cancelled' = [cancelled EXCEPT ![t] = 0]
    /\ UNCHANGED <<concurrency, limit, owner, queuedAtCancel>>
    /\ UNCHANGED configVars
    /\ UNCHANGED restVars

AllQueued == UNION {Range(queue[s]) : s \in SchedId}

\* cancelTransferTasks without "this._schedulers.forEach(s => s.empty())"
CancelTransferTasksNoEmpty ==
  /\ schedulers' = << >>
  /\ cancelled' = [t \in TaskId |->
                     IF t \in pendingTransferTasks THEN cancelled[t] + 1 ELSE cancelled[t]]
  /\ pendingTransferTasks' = {}
  /\ queuedAtCancel' = queuedAtCancel \cup AllQueued
  /\ lastResolved' = 0
  /\ UNCHANGED <<concurrency, limit, queue, running, awaiting, owner, before, after>>
  /\ UNCHANGED configVars
  /\ UNCHANGED restVars

\* cancelTransferTasks()
CancelTransferTasks ==
  /\ queue' = [s \in SchedId |->
                 IF s \in Range(schedulers) THEN SchedulerEmpty(s) ELSE queue[s]]
  /\ schedulers' = << >>
  /\ cancelled' = [t \in TaskId |->
                     IF t \in pendingTransferTasks THEN cancelled[t] + 1 ELSE cancelled[t]]
  /\ pendingTransferTasks' = {}
  /\ queuedAtCancel' = queuedAtCancel \cup AllQueued
  /\ lastResolved' = 0
  /\ UNCHANGED <<concurrency, limit, running, awaiting, owner, before, after>>
  /\ UNCHANGED configVars
  /\ UNCHANGED restVars

\* ------------------------------------------------------------------ configuration
\* Strings the code inspects character by character (agent, environment values, file
\* contents) are sequences of one-character strings; "CR" and "LF" stand for \r and \n.
MaxRemotes == 1
MaxWatchers == 2
MaxReads == 2
MaxUploads == 4

\* app.state.profile when no profile is selected
Null == "<null>"

\* values of app.state.profile: a configured name, an unconfigured one, and a name
\* every object inherits from Object.prototype
ProfileNames == {"dev", "prod", "constructor"}

\* property names a plain object answers without having them as own keys
ObjectPrototypeNames == {"constructor"}
EnvNames == {<<"A">>}
EnvValues == {<< >>, <<"v">>}
Paths == {"f"}
FileContents == {<<"a">>, <<"a", "CR", "LF", "b">>}

Has(c, f) == f \in DOMAIN c

\* delete c[f]
Delete(c, f) == [k \in DOMAIN c \ {f} |-> c[k]]

\* Object.assign(target, source)
Assign(target, source) ==
  [k \in DOMAIN target \cup DOMAIN source |->
     IF k \in DOMAIN source THEN source[k] ELSE target[k]]

\* c[f] = v
Set(c, f, v) == [k \in DOMAIN c \cup {f} |-> IF k = f THEN v ELSE c[k]]

\* String.prototype.split(/\r?\n/g)
RECURSIVE SplitFrom(_, _)
SplitFrom(s, cur) ==
  IF s = << >> THEN <<cur>>
  ELSE IF Head(s) = "LF" THEN <<cur>> \o SplitFrom(Tail(s), << >>)
  ELSE IF Head(s) = "CR" /\ Len(s) >= 2 /\ s[2] = "LF"
    THEN <<cur>> \o SplitFrom(Tail(Tail(s)), << >>)
  ELSE SplitFrom(Tail(s), Append(cur, Head(s)))

SplitLines(s) == SplitFrom(s, << >>)

\* filesIgnoredFromConfig without "cache.set(ignoreFile, ignoreFromFile)"
FilesIgnoredFromConfigNoCacheSet(c, cache, dsk) ==
  LET ignore == IF Has(c, "ignore") /\ Len(c["ignore"]) > 0 THEN c["ignore"] ELSE << >>
      hasFile == Has(c, "ignoreFile") /\ c["ignoreFile"] # ""
      ignoreFile == c["ignoreFile"]
  IN  IF ~hasFile
        THEN [ok |-> TRUE, list |-> ignore, cache |-> cache, read |-> FALSE]
      ELSE IF ignoreFile \in DOMAIN cache
        THEN [ok |-> TRUE, list |-> ignore \o cache[ignoreFile], cache |-> cache,
              read |-> FALSE]
      ELSE IF dsk[ignoreFile].exists
        THEN LET ignoreFromFile == SplitLines(dsk[ignoreFile].content)
             IN  [ok |-> TRUE, list |-> ignore \o ignoreFromFile, cache |-> cache,
                  read |-> TRUE]
      ELSE [ok |-> FALSE, list |-> << >>, cache |-> cache, read |-> FALSE]

\* filesIgnoredFromConfig caching the file's text before it is split into lines
FilesIgnoredFromConfigCacheText(c, cache, dsk) ==
  LET ignore == IF Has(c, "ignore") /\ Len(c["ignore"]) > 0 THEN c["ignore"] ELSE << >>
      hasFile == Has(c, "ignoreFile") /\ c["ignoreFile"] # ""
      ignoreFile == c["ignoreFile"]
  IN  IF ~hasFile
        THEN [ok |-> TRUE, list |-> ignore, cache |-> cache, read |-> FALSE]
      ELSE IF ignoreFile \in DOMAIN cache
        THEN [ok |-> TRUE, list |-> ignore \o cache[ignoreFile], cache |-> cache,
              read |-> FALSE]
      ELSE IF dsk[ignoreFile].exists
        THEN LET ignoreFromFile == SplitLines(dsk[ignoreFile].content)
             IN  [ok |-> TRUE, list |-> ignore \o ignoreFromFile,
                  cache |-> Set(cache, ignoreFile, <<dsk[ignoreFile].content>>),
                  read |-> TRUE]
      ELSE [ok |-> FALSE, list |-> << >>, cache |-> cache, read |-> FALSE]

\* filesIgnoredFromConfig(config): the pattern list, the cache afterwards, and whether
\* it threw for a missing ignoreFile
FilesIgnoredFromConfig(c, cache, dsk) ==
  LET ignore == IF Has(c, "ignore") /\ Len(c["ignore"]) > 0 THEN c["ignore"] ELSE << >>
      hasFile == Has(c, "ignoreFile") /\ c["ignoreFile"] # ""
      ignoreFile == c["ignoreFile"]
  IN  IF ~hasFile
        THEN [ok |-> TRUE, list |-> ignore, cache |-> cache, read |-> FALSE]
      ELSE IF ignoreFile \in DOMAIN cache
        THEN [ok |-> TRUE, list |-> ignore \o cache[ignoreFile], cache |-> cache,
              read |-> FALSE]
      ELSE IF dsk[ignoreFile].exists
        THEN LET ignoreFromFile == SplitLines(dsk[ignoreFile].content)
             IN  [ok |-> TRUE, list |-> ignore \o ignoreFromFile,
                  cache |-> Set(cache, ignoreFile, ignoreFromFile), read |-> TRUE]
      ELSE [ok |-> FALSE, list |-> << >>, cache |-> cache, read |-> FALSE]

\* the ignore predicate _createIgnoreFn attaches: null, or built from the pattern list
IgnoreFn(list) ==
  IF Len(list) <= 0
    THEN [isNull |-> TRUE, patterns |-> << >>]
    ELSE [isNull |-> FALSE, patterns |-> list]

\* getHostInfo: the keys it drops
IgnoreOptions ==
  {"name", "remotePath", "uploadOnSave", "downloadOnOpen", "ignore", "ignoreFile",
   "watcher", "concurrency", "syncOption", "sshConfigPath"}

GetHostInfo(c) == [k \in DOMAIN c \ IgnoreOptions |-> c[k]]

\* "config.agent && config.agent.startsWith('$')"
AgentIsEnvRef(c) == Has(c, "agent") /\ c["agent"] # << >> /\ Head(c["agent"]) = "$"

\* process.env[name]; an unset variable and an empty value are both falsy
EnvVal(e, name) == IF name \in DOMAIN e /\ e[name].set THEN e[name].value ELSE << >>

\* "config.profiles && Object.keys(config.profiles).length > 0"
HasProfile(c) == Has(c, "profiles") /\ DOMAIN c["profiles"] # {}

\* "hasProfile && app.state.profile": null and the empty string are falsy
UsesProfile(c, prof) == HasProfile(c) /\ prof \notin {Null, ""}

\* "config.profiles[app.state.profile]" is truthy: an own key, or an inherited property
ProfileFound(c, prof) == prof \in DOMAIN c["profiles"] \cup ObjectPrototypeNames

\* the own enumerable fields Object.assign(copied, profile) copies
ProfileFields(c, prof) ==
  IF prof \in DOMAIN c["profiles"] THEN c["profiles"][prof] ELSE << >>

\* this._configValidator && this._configValidator(copied)
ValidationError(validator, c) == validator = "hostRequired" /\ ~Has(c, "host")

\* a thrown Error: the kind of message and the name the message quotes
Failure(kind, name, cache) ==
  [status |-> "error", error |-> <<kind, name>>, config |-> << >>, cache |-> cache,
   read |-> {}]

\* the hint appended to a validation error
ValidationHint(c, prof) ==
  IF HasProfile(c) /\ prof = Null THEN "Maybe you should set a profile first" ELSE ""

\* getConfig(): the outcome for a raw configuration, profile selection, environment,
\* validator, ignore-file cache and disk
GetConfig(raw, prof, e, validator, cache, dsk) ==
  LET copied0 == Delete(Assign(<< >>, raw), "profiles")
      evnVarName == Tail(raw["agent"])
      val == EnvVal(e, evnVarName)
      copied1 == IF AgentIsEnvRef(raw) THEN Set(copied0, "agent", val) ELSE copied0
      copied2 == IF UsesProfile(raw, prof)
                   THEN Assign(copied1, ProfileFields(raw, prof))
                   ELSE copied1
      ignored == FilesIgnoredFromConfig(copied2, cache, dsk)
  IN  IF AgentIsEnvRef(raw) /\ val = << >>
        THEN Failure("Environment variable not found", evnVarName, cache)
      ELSE IF UsesProfile(raw, prof) /\ ~ProfileFound(raw, prof)
        THEN Failure("Unkown Profile", prof, cache)
      ELSE IF ValidationError(validator, copied2)
        THEN Failure("Config validation fail", ValidationHint(raw, prof), cache)
      ELSE IF ~ignored.ok
        THEN Failure("File not found", copied2["ignoreFile"], cache)
      ELSE [status |-> "ok", error |-> << >>,
            config |-> Set(copied2, "ignore", IgnoreFn(ignored.list)),
            cache |-> ignored.cache,
            read |-> IF ignored.read THEN {copied2["ignoreFile"]} ELSE {}]

\* what the latest getConfig() call gave its caller, "none" once an input has changed
\* since
NoResult == [status |-> "none", error |-> << >>, config |-> << >>, cache |-> << >>]

\* history of getConfig() calls. again: the latest call followed a call made with the
\* same inputs; from: the profile a call succeeded under before the profile selection
\* changed to the current one
NoProfileChange == "<unchanged>"

NoCalls == [again |-> FALSE, from |-> NoProfileChange]

\* app.state.profile as getConfig() reads it: the selection of the previous call
\* instead of the current one
ActiveProfileOfPreviousCall ==
  IF calls.from # NoProfileChange THEN calls.from ELSE profile

\* app.state.profile as getConfig() reads it
ActiveProfile == profile

\* fs.readFileSync counted per path
ReadsAfter(rd, paths) ==
  [p \in Paths |-> IF p \in paths THEN Min(rd[p] + 1, MaxReads) ELSE rd[p]]

\* the raw configurations a FileService is constructed with
AgentChoices == {<< >>, <<"s">>, <<"$", "A">>}

ProfileRecords ==
  { [host |-> "h2"],
    [agent |-> <<"$", "A">>],
    [host |-> "h2", profiles |-> [x |-> [host |-> "h3"]]] }

ProfileMaps ==
  {<< >>} \cup {[dev |-> r] : r \in ProfileRecords}

IgnoreChoices ==
  { << >>, [ignore |-> <<<<"b">>>>], [ignoreFile |-> "f"],
    [ignore |-> <<<<"b">>>>, ignoreFile |-> "f"] }

HostChoices == { << >>, [host |-> "h1"] }

RawConfigs ==
  { Assign(Assign(Assign(Assign([remotePath |-> <<"/", "r">>], h), i),
                  IF a = << >> THEN << >> ELSE [agent |-> a]),
           IF withProfiles THEN [profiles |-> m] ELSE << >>) :
      h \in HostChoices, i \in IgnoreChoices, a \in AgentChoices,
      m \in ProfileMaps, withProfiles \in BOOLEAN }

ConfigDefault ==
  /\ config = [remotePath |-> <<"/", "r">>, host |-> "h1"]
  /\ configValidator = "unset"
  /\ profile = Null
  /\ env = [n \in EnvNames |-> [set |-> FALSE, value |-> << >>]]
  /\ ignoreFileCache = << >>
  /\ disk = [p \in Paths |-> [exists |-> FALSE, content |-> << >>]]
  /\ result = NoResult
  /\ remotes = {}
  /\ removed = {}
  /\ watcherService = 0
  /\ watcherLive = {}
  /\ replacedWatcher = 0
  /\ disposed = "no"
  /\ calls = NoCalls
  /\ reads = [p \in Paths |-> 0]

ConfigInit ==
  /\ config \in RawConfigs
  /\ configValidator \in {"unset", "hostRequired"}
  /\ profile = Null
  /\ env = [n \in EnvNames |-> [set |-> FALSE, value |-> << >>]]
  /\ ignoreFileCache = << >>
  /\ disk = [p \in Paths |-> [exists |-> FALSE, content |-> << >>]]
  /\ result = NoResult
  /\ remotes = {}
  /\ removed = {}
  /\ watcherService = 0
  /\ watcherLive = {}
  /\ replacedWatcher = 0
  /\ disposed = "no"
  /\ calls = NoCalls
  /\ reads = [p \in Paths |-> 0]

\* the profile selection changes (command "SFTP: Set Profile")
SetProfile(p) ==
  /\ disposed = "no"
  /\ p # profile
  /\ profile' = p
  /\ result' = NoResult
  /\ calls' = [again |-> FALSE,
               from |-> IF result.status = "ok" THEN profile ELSE NoProfileChange]
  /\ UNCHANGED <<config, configValidator, env, ignoreFileCache, disk, remotes, removed,
                 watcherService, watcherLive, replacedWatcher, disposed, reads>>
  /\ UNCHANGED schedVars
  /\ UNCHANGED restVars

\* the environment changes: a variable is set (possibly to the empty string) or unset
SetEnv(n, isSet, v) ==
  /\ disposed = "no"
  /\ env[n] # [set |-> isSet, value |-> v]
  /\ ~isSet => v = << >>
  /\ env' = [env EXCEPT ![n] = [set |-> isSet, value |-> v]]
  /\ result' = NoResult
  /\ calls' = NoCalls
  /\ UNCHANGED <<config, configValidator, profile, ignoreFileCache, disk, remotes, removed,
                 watcherService, watcherLive, replacedWatcher, disposed, reads>>
  /\ UNCHANGED schedVars
  /\ UNCHANGED restVars

\* the ignore file is written or deleted
WriteFile(p, exists, content) ==
  /\ disposed = "no"
  /\ disk[p] # [exists |-> exists, content |-> content]
  /\ ~exists => content = << >>
  /\ disk' = [disk EXCEPT ![p] = [exists |-> exists, content |-> content]]
  /\ result' = NoResult
  /\ calls' = NoCalls
  /\ UNCHANGED <<config, configValidator, profile, env, ignoreFileCache, remotes, removed,
                 watcherService, watcherLive, replacedWatcher, disposed, reads>>
  /\ UNCHANGED schedVars
  /\ UNCHANGED restVars

\* the owner of app.ignoreFileCache evicts the entry of a path
Evict(p) ==
  /\ disposed = "no"
  /\ p \in DOMAIN ignoreFileCache
  /\ ignoreFileCache' = Delete(ignoreFileCache, p)
  /\ reads' = [reads EXCEPT ![p] = 0]
  /\ result' = NoResult
  /\ calls' = NoCalls
  /\ UNCHANGED <<config, configValidator, profile, env, disk, remotes, removed,
                 watcherService, watcherLive, replacedWatcher, disposed>>
  /\ UNCHANGED schedVars
  /\ UNCHANGED restVars

\* a caller calls getConfig()
CallGetConfig ==
  /\ disposed = "no"
  /\ LET r == GetConfig(config, ActiveProfile, env, configValidator, ignoreFileCache, disk)
     IN  /\ result' = [status |-> r.status, error |-> r.error, config |-> r.config,
                       cache |-> << >>]
         /\ ignoreFileCache' = r.cache
         /\ reads' = ReadsAfter(reads, r.read)
  /\ calls' = [calls EXCEPT !.again = result.status # "none"]
  /\ UNCHANGED <<config, configValidator, profile, env, disk, remotes, removed,
                 watcherService, watcherLive, replacedWatcher, disposed>>
  /\ UNCHANGED schedVars
  /\ UNCHANGED restVars

\* getRemoteFileSystem(config), called with the configuration getConfig() returned
GetRemoteFileSystem ==
  /\ disposed = "no"
  /\ result.status = "ok"
  /\ Cardinality(remotes \cup {GetHostInfo(result.config)}) <= MaxRemotes
  /\ remotes' = remotes \cup {GetHostInfo(result.config)}
  /\ UNCHANGED <<config, configValidator, profile, env, ignoreFileCache, disk, result,
                 removed, watcherService, watcherLive, replacedWatcher, disposed, calls, reads>>
  /\ UNCHANGED schedVars
  /\ UNCHANGED restVars

\* this._watcherConfig: config.watcher as the constructor stored it
Undefined == "<undefined>"

WatcherConfig == IF Has(config, "watcher") THEN config["watcher"] ELSE Undefined

\* _disposeWatcher(): service.dispose(baseDir) ends the registrations the service holds
\* for baseDir; the built-in service (0) holds none
DisposeWatcher(live, service) == {r \in live : r.service # service}

\* _createWatcher(): service.create(baseDir, this._watcherConfig)
CreateWatcher(live, service) ==
  IF service = 0 THEN live
  ELSE live \cup {[service |-> service, config |-> WatcherConfig]}

\* setWatcherService without the _disposeWatcher() call
SetWatcherServiceNoDispose(w) ==
  /\ watcherService' = w
  /\ watcherLive' = CreateWatcher(watcherLive, w)
  /\ replacedWatcher' = watcherService
  /\ disposed' = "no"
  /\ UNCHANGED <<config, configValidator, profile, env, ignoreFileCache, disk, result,
                 remotes, removed, calls, reads>>
  /\ UNCHANGED schedVars
  /\ UNCHANGED restVars

\* setWatcherService(watcherService)
SetWatcherService(w) ==
  /\ watcherService' = w
  /\ watcherLive' = CreateWatcher(DisposeWatcher(watcherLive, watcherService), w)
  /\ replacedWatcher' = watcherService
  /\ disposed' = "no"
  /\ UNCHANGED <<config, configValidator, profile, env, ignoreFileCache, disk, result,
                 remotes, removed, calls, reads>>
  /\ UNCHANGED schedVars
  /\ UNCHANGED restVars

\* dispose(): _disposeWatcher(), then removeRemote(getHostInfo(this.getConfig()))
Dispose ==
  /\ watcherLive' = DisposeWatcher(watcherLive, watcherService)
  /\ LET r == GetConfig(config, ActiveProfile, env, configValidator, ignoreFileCache, disk)
     IN  /\ ignoreFileCache' = r.cache
         /\ reads' = ReadsAfter(reads, r.read)
         /\ IF r.status = "ok"
              THEN /\ removed' = removed \cup {GetHostInfo(r.config)}
                   /\ disposed' = "returned"
              ELSE /\ removed' = removed
                   /\ disposed' = "threw"
  /\ result' = NoResult
  /\ calls' = NoCalls
  /\ UNCHANGED <<config, configValidator, profile, env, disk, remotes, watcherService,
                 replacedWatcher>>
  /\ UNCHANGED schedVars
  /\ UNCHANGED restVars

\* ------------------------------------------------------------------ ignore predicate
\* Paths are sequences of one-character strings; a path split at "/" is a sequence of
\* segments.
Sep == "/"

RECURSIVE SplitSegs(_, _)
SplitSegs(s, cur) ==
  IF s = << >> THEN <<cur>>
  ELSE IF Head(s) = Sep THEN <<cur>> \o SplitSegs(Tail(s), << >>)
  ELSE SplitSegs(Tail(s), Append(cur, Head(s)))

RECURSIVE JoinSegs(_)
JoinSegs(segs) ==
  IF segs = << >> THEN << >>
  ELSE IF Len(segs) = 1 THEN segs[1]
  ELSE segs[1] \o <<Sep>> \o JoinSegs(Tail(segs))

\* node's normalizeString: empty and "." segments go, ".." takes the segment before it
\* away (above the root it is dropped, or kept when allowAboveRoot)
RECURSIVE NormalizeSegs(_, _, _)
NormalizeSegs(segs, out, allowAboveRoot) ==
  IF segs = << >> THEN out
  ELSE LET g == Head(segs)
       IN  IF g = << >> \/ g = <<".">>
             THEN NormalizeSegs(Tail(segs), out, allowAboveRoot)
           ELSE IF g = <<".", ".">>
             THEN IF out # << >> /\ out[Len(out)] # <<".", ".">>
                    THEN NormalizeSegs(Tail(segs), SubSeq(out, 1, Len(out) - 1),
                                       allowAboveRoot)
                  ELSE IF allowAboveRoot
                    THEN NormalizeSegs(Tail(segs), Append(out, g), allowAboveRoot)
                  ELSE NormalizeSegs(Tail(segs), out, allowAboveRoot)
           ELSE NormalizeSegs(Tail(segs), Append(out, g), allowAboveRoot)

IsAbsolute(path) == path # << >> /\ Head(path) = Sep

\* path.normalize(fsPath), POSIX: a trailing separator is kept
PathNormalize(path) ==
  IF path = << >> THEN <<".">>
  ELSE LET isAbsolute == IsAbsolute(path)
           trailingSeparator == path[Len(path)] = Sep
           body0 == JoinSegs(NormalizeSegs(SplitSegs(path, << >>), << >>, ~isAbsolute))
           body1 == IF body0 = << >> /\ ~isAbsolute THEN <<".">> ELSE body0
           body2 == IF body1 # << >> /\ trailingSeparator THEN body1 \o <<Sep>> ELSE body1
       IN  IF isAbsolute THEN <<Sep>> \o body2 ELSE body2

\* path.resolve(path) of an absolute path, as segments
ResolveSegs(path) == NormalizeSegs(SplitSegs(path, << >>), << >>, FALSE)

RECURSIVE CommonLen(_, _)
CommonLen(a, b) ==
  IF a = << >> \/ b = << >> \/ Head(a) # Head(b) THEN 0
  ELSE 1 + CommonLen(Tail(a), Tail(b))

\* path.relative(from, to), POSIX, for absolute paths
PathRelative(from, to) ==
  LET f == ResolveSegs(from)
      t == ResolveSegs(to)
      n == CommonLen(f, t)
      ups == [i \in 1..(Len(f) - n) |-> <<".", ".">>]
  IN  JoinSegs(ups \o SubSeq(t, n + 1, Len(t)))

\* upath.relative(remoteContext, fsPath)
UpathRelative(from, to) == PathRelative(from, to)

\* "normalizedPath.indexOf(localContext) === 0"
StartsWith(str, prefix) ==
  Len(prefix) <= Len(str) /\ SubSeq(str, 1, Len(prefix)) = prefix

\* ignore.ignores(relativePath) for patterns that are plain names: a name excludes
\* every path that has a segment of that name
Ignores(patterns, relativePath) ==
  \E i \in 1..Len(patterns) : patterns[i] \in Range(SplitSegs(relativePath, << >>))

\* ignoreFunc(fsPath) of _createIgnoreFn
IgnoreFunc(localContext, remoteContext, patterns, fsPath) ==
  LET normalizedPath == PathNormalize(fsPath)
      relativePath == IF StartsWith(normalizedPath, localContext)
                        THEN PathRelative(localContext, fsPath)
                        ELSE UpathRelative(remoteContext, fsPath)
  IN  relativePath # << >> /\ Ignores(patterns, relativePath)

LocalBases == { <<"/", "p">>, <<"/", "q">> }

RemoteRoots == { <<"/", "r">>, <<"/", "p">>, <<"/", "p", "/", "w">> }

PatternLists == { <<<<"w">>>>, <<<<"a">>>>, <<<<"w">>, <<"a">>>> }

\* the paths the predicate is asked about: the two roots and files below them
QueryPaths ==
  LocalBases \cup RemoteRoots \cup
  { <<"/", "p", "/", "a">>, <<"/", "r", "/", "w">>, <<"/", "r", "/", ".", "/", "b">> }

IgnoreRawConfigs ==
  { [remotePath |-> rp, host |-> "h1", ignore |-> pl] :
      rp \in RemoteRoots, pl \in PatternLists }

\* a caller applies the ignore predicate of the configuration getConfig() returned
CallIgnore(fsPath) ==
  /\ disposed = "no"
  /\ result.status = "ok"
  /\ ~result.config["ignore"].isNull
  /\ asked' = fsPath
  /\ answer' = IgnoreFunc(baseDir, result.config["remotePath"],
                          result.config["ignore"].patterns, fsPath)
  /\ UNCHANGED baseDir
  /\ UNCHANGED <<schedVars, configVars, uploadVars>>

\* ------------------------------------------------------------------ UploadFile
\* the resources (files) the upload command is run on
UResource == 1..MaxUploads

UploadInit ==
  /\ upload = [r \in UResource |-> "none"]
  /\ refreshed = [r \in UResource |-> 0]

\* handleFile(uResource, fileService, config) up to "await upload(...)"
HandleFile(r) ==
  /\ upload[r] # "pending"
  /\ upload' = [upload EXCEPT ![r] = "pending"]
  /\ refreshed' = [refreshed EXCEPT ![r] = 0]
  /\ UNCHANGED <<schedVars, configVars, ignoreVars>>

\* the upload promise resolves: handleFile resumes and calls refreshRemoteExplorer
UploadResolved(r) ==
  /\ upload[r] = "pending"
  /\ upload' = [upload EXCEPT ![r] = "resolved"]
  /\ refreshed' = [refreshed EXCEPT ![r] = @ + 1]
  /\ UNCHANGED <<schedVars, configVars, ignoreVars>>

\* handleFile with the refresh in a "finally" block
UploadRejectedRefreshes(r) ==
  /\ upload[r] = "pending"
  /\ upload' = [upload EXCEPT ![r] = "rejected"]
  /\ refreshed' = [refreshed EXCEPT ![r] = @ + 1]
  /\ UNCHANGED <<schedVars, configVars, ignoreVars>>

\* the upload promise rejects: the await throws and handleFile rejects
UploadRejected(r) ==
  /\ upload[r] = "pending"
  /\ upload' = [upload EXCEPT ![r] = "rejected"]
  /\ UNCHANGED refreshed
  /\ UNCHANGED <<schedVars, configVars, ignoreVars>>

UploadNext ==
  \/ \E r \in UResource : HandleFile(r)
  \/ \E r \in UResource : UploadResolved(r)
  \/ \E r \in UResource : UploadRejected(r)

\* ------------------------------------------------------------------ specifications
\* the ignore predicate before it is called
IgnoreInit ==
  /\ baseDir = <<"/", "p">>
  /\ asked = << >>
  /\ answer = FALSE

ConfigNext ==
  \/ \E p \in ProfileNames \cup {Null} : SetProfile(p)
  \/ \E n \in EnvNames, v \in EnvValues : SetEnv(n, TRUE, v)
  \/ \E n \in EnvNames : SetEnv(n, FALSE, << >>)
  \/ \E p \in Paths, c \in FileContents : WriteFile(p, TRUE, c)
  \/ \E p \in Paths : WriteFile(p, FALSE, << >>)
  \/ \E p \in Paths : Evict(p)
  \/ CallGetConfig
  \/ GetRemoteFileSystem
  \/ Dispose

Init == SchedInit /\ ConfigDefault /\ UploadInit /\ IgnoreInit

Next ==
  \/ \E s \in SchedId, c \in Concurrencies : CreateTransferScheduler(s, c)
  \/ \E s \in SchedId, t \in TaskId : Add(s, t)
  \/ \E s \in SchedId : RunEmpty(s)
  \/ \E s \in SchedId : RunStart(s)
  \/ \E t \in TaskId, err \in Outcome : TaskFinish(t, err)
  \/ CancelTransferTasks

Spec == Init /\ [][Next]_vars

\* the configuration of the service whose transfer SchedBusy describes
BusyConfig ==
  [remotePath |-> <<"/", "r">>, host |-> "h1", ignoreFile |-> "f",
   profiles |-> [dev |-> [host |-> "h2"]]]

\* getConfig() and dispose() are called on an idle service and during a transfer
ConfigSpecInit ==
  /\ \/ SchedInit /\ ConfigInit
     \/ SchedBusy /\ ConfigInit /\ config = BusyConfig /\ configValidator = "unset"
  /\ UploadInit
  /\ IgnoreInit

ConfigSpec == ConfigSpecInit /\ [][ConfigNext]_vars

\* the raw configurations of the services whose watcher is followed
WatcherChoices == {<< >>, [watcher |-> "w0"]}

WatcherRawConfigs ==
  { Assign(Assign([remotePath |-> <<"/", "r">>, host |-> "h1"], w),
           IF m = << >> THEN << >> ELSE [profiles |-> m]) :
      w \in WatcherChoices,
      m \in {<< >>, [dev |-> [host |-> "h2"]], [dev |-> [watcher |-> "w1"]]} }

WatcherSpecInit ==
  /\ SchedInit
  /\ config \in WatcherRawConfigs
  /\ configValidator = "unset"
  /\ profile = Null
  /\ env = [n \in EnvNames |-> [set |-> FALSE, value |-> << >>]]
  /\ ignoreFileCache = << >>
  /\ disk = [p \in Paths |-> [exists |-> FALSE, content |-> << >>]]
  /\ result = NoResult
  /\ remotes = {}
  /\ removed = {}
  /\ watcherService = 0
  /\ watcherLive = {}
  /\ replacedWatcher = 0
  /\ disposed = "no"
  /\ calls = NoCalls
  /\ reads = [p \in Paths |-> 0]
  /\ UploadInit
  /\ IgnoreInit

WatcherNext ==
  \/ \E w \in 1..MaxWatchers : SetWatcherService(w)
  \/ \E p \in ProfileNames \cup {Null} : SetProfile(p)
  \/ CallGetConfig
  \/ GetRemoteFileSystem
  \/ Dispose

\* setWatcherService() and dispose() in any order, on a service that is in use
WatcherSpec == WatcherSpecInit /\ [][WatcherNext]_vars

IgnoreSpecInit ==
  /\ SchedInit
  /\ config \in IgnoreRawConfigs
  /\ configValidator = "unset"
  /\ profile = Null
  /\ env = [n \in EnvNames |-> [set |-> FALSE, value |-> << >>]]
  /\ ignoreFileCache = << >>
  /\ disk = [p \in Paths |-> [exists |-> FALSE, content |-> << >>]]
  /\ result = NoResult
  /\ remotes = {}
  /\ removed = {}
  /\ watcherService = 0
  /\ watcherLive = {}
  /\ replacedWatcher = 0
  /\ disposed = "no"
  /\ calls = NoCalls
  /\ reads = [p \in Paths |-> 0]
  /\ UploadInit
  /\ baseDir \in LocalBases
  /\ asked = << >>
  /\ answer = FALSE

IgnoreNext ==
  \/ CallGetConfig
  \/ \E fsPath \in QueryPaths : CallIgnore(fsPath)

\* the ignore predicate of a resolved configuration applied to paths
IgnoreSpec == IgnoreSpecInit /\ [][IgnoreNext]_vars

UploadSpecInit == SchedInit /\ ConfigDefault /\ UploadInit /\ IgnoreInit

\* the upload command run on several files, one invocation after another per file
UploadSpec == UploadSpecInit /\ [][UploadNext]_vars

\* a running task eventually ends (it completes, fails, or observes its cancel signal)
FairSpec == Spec /\ WF_vars(\E t \in TaskId, err \in Outcome : TaskFinish(t, err))

\* ------------------------------------------------------------------ properties
InList(s) == s \in Range(schedulers)

TasksOf(s) == {t \in TaskId : owner[t] = s}

\* tasks reported started (BEFORE_TRANSFER) whose AFTER_TRANSFER has not fired
StartedNotDone(s) == {t \in TasksOf(s) : before[t] > 0 /\ after[t] = "none"}

Without(list, s) ==
  LET keep(x) == x # s IN SelectSeq(list, keep)

\* C1: a scheduler created with concurrency C never has more than C tasks that were
\* reported started and whose done notification has not fired.
C1_ConcurrencyBound ==
  \A s \in SchedId : Cardinality(StartedNotDone(s)) <= concurrency[s]

\* C1 witness: a scheduler is saturated (C started, not done) while another task waits
C1_Witness ==
  \E s \in SchedId :
    /\ Created(s)
    /\ Cardinality(StartedNotDone(s)) = concurrency[s]
    /\ queue[s] # << >>

\* C2: a run() promise resolves only when every task the scheduler was given has had
\* its done notification, whatever the outcomes (tasks a cancelTransferTasks() took
\* out of the queue excepted), and every outstanding run() eventually resolves: a
\* failing task keeps no sibling from being started and finished.
C2_RunResolvesAfterAllDone ==
  /\ [](\A s \in SchedId : lastResolved = s =>
          \A t \in TasksOf(s) : after[t] # "none" \/ t \in queuedAtCancel)
  /\ \A s \in SchedId : awaiting[s] ~> (lastResolved = s)

\* C2 witness: a run() resolved after one of its tasks failed and a sibling succeeded,
\* with no cancellation
C2_Witness ==
  \E s \in SchedId :
    /\ lastResolved = s
    /\ queuedAtCancel = {}
    /\ \E t, u \in TasksOf(s) : after[t] = "error" /\ after[u] = "ok"

\* C3: a run() that is outstanding on a scheduler that cancelTransferTasks() took off
\* the active list (cancel before or during the run) eventually resolves.
C3_CancelNeverBlocksRun ==
  \A s \in SchedId : (awaiting[s] /\ ~InList(s)) ~> ~awaiting[s]

\* C3 witness: a run() resolved on a scheduler out of whose queue a cancel took a task
\* while another of its tasks had been started
C3_Witness ==
  \E s \in SchedId :
    /\ lastResolved = s
    /\ \E t, u \in TasksOf(s) :
         t \in queuedAtCancel /\ before[t] = 0 /\ after[u] # "none"

\* C4: a task that was queued, not started, when cancelTransferTasks() was called is
\* never started afterwards.
C4_QueuedAtCancelNeverStarts ==
  \A t \in queuedAtCancel : before[t] = 0 /\ t \notin pendingTransferTasks

\* C5: whenever some scheduler has a queued or running task, isTransferring() is true.
C5_TransferringWhileWork ==
  (\E s \in SchedId : SchedulerSize(s) > 0) => IsTransferring

\* C6: the step that resolves a run() of scheduler s takes s, and only s, off the
\* active list and leaves every other scheduler's queue, running tasks, limit and
\* outstanding run() as they were.
C6_ResolveRemovesOnlyOwn ==
  [][\A s \in SchedId : lastResolved' = s =>
       /\ schedulers' = Without(schedulers, s)
       /\ \A r \in SchedId \ {s} :
            /\ queue'[r] = queue[r]
            /\ running'[r] = running[r]
            /\ limit'[r] = limit[r]
            /\ awaiting'[r] = awaiting[r]]_vars

\* C6 witness: a run() of one scheduler resolved while another scheduler, still on the
\* list, has work
C6_Witness ==
  \E s, r \in SchedId :
    /\ s # r
    /\ lastResolved = s
    /\ InList(r)
    /\ SchedulerSize(r) > 0

\* C7: run() on a scheduler that holds no task resolves in that very step, emits no
\* BEFORE_TRANSFER or AFTER_TRANSFER, starts nothing, and leaves the scheduler off the
\* active list.
C7_RunOnEmptyResolvesAtOnce ==
  [][\A s \in SchedId :
       (SchedulerSize(s) <= 0 /\ (RunEmpty(s) \/ RunStart(s))) =>
         /\ lastResolved' = s
         /\ ~awaiting'[s]
         /\ before' = before
         /\ after' = after
         /\ running' = running
         /\ pendingTransferTasks' = pendingTransferTasks
         /\ ~(s \in Range(schedulers'))]_vars

\* C7 witness: a run() resolved on a scheduler none of whose tasks was ever started,
\* all of them having been drained by a cancel
C7_Witness ==
  \E s \in SchedId :
    /\ lastResolved = s
    /\ TasksOf(s) # {}
    /\ \A t \in TasksOf(s) : t \in queuedAtCancel /\ before[t] = 0

\* C8: after dispose() the watcher registration for the base directory is disposed and
\* removeRemote has been called with every host info createRemoteIfNoneExist was given.
C8_DisposeReleasesRemote ==
  disposed # "no" =>
    /\ \A r \in watcherLive : r.service # watcherService
    /\ remotes \subseteq removed

\* C9: a configuration getConfig() returns has no "profiles" field.
C9_NoProfilesInResult ==
  result.status = "ok" => ~Has(result.config, "profiles")

\* C10: when the configuration's agent is a "$NAME" reference, getConfig() fails if NAME
\* is unset and otherwise returns NAME's value as agent; a returned agent is never an
\* unresolved "$NAME" reference.
C10_AgentResolved ==
  result.status # "none" =>
    /\ AgentIsEnvRef(config) =>
         IF Tail(config["agent"]) \in DOMAIN env /\ env[Tail(config["agent"])].set
           THEN result.status = "ok" =>
                  result.config["agent"] = env[Tail(config["agent"])].value
           ELSE result.status = "error"
    /\ (result.status = "ok" /\ Has(result.config, "agent")) =>
         ~(result.config["agent"] # << >> /\ Head(result.config["agent"]) = "$")

\* C11: when the raw configuration has a non-empty profile map and the active profile
\* name (a non-empty string) is not one of its keys, getConfig() fails with the error that names the
\* profile; a getConfig() call leaves the stored raw configuration, the active list and
\* the pending set as they were and starts no task.
C11_UnknownProfileFails ==
  /\ [](( /\ result.status # "none"
          /\ HasProfile(config)
          /\ profile \notin {Null, ""}
          /\ profile \notin DOMAIN config["profiles"] ) =>
          /\ result.status = "error"
          /\ result.error = <<"Unkown Profile", profile>>)
  /\ [][CallGetConfig =>
          /\ config' = config
          /\ schedulers' = schedulers
          /\ pendingTransferTasks' = pendingTransferTasks
          /\ before' = before]_vars

\* C12: a getConfig() call that follows another with the same stored configuration,
\* profile, environment and ignore file gives the same outcome and the same
\* configuration (the ignore predicate compared by the patterns it was built from), and
\* no getConfig() call changes the stored raw configuration, the active list, the
\* pending set or anything else but the ignore-file cache.
C12_GetConfigIdempotent ==
  [][CallGetConfig =>
       /\ result.status # "none" =>
            /\ result'.status = result.status
            /\ result'.error = result.error
            /\ result'.config = result.config
       /\ config' = config
       /\ schedulers' = schedulers
       /\ pendingTransferTasks' = pendingTransferTasks
       /\ UNCHANGED <<profile, env, disk, remotes, removed, queue, running, before, after>>]_vars

\* C12 witness: during a transfer, with a profile selected and merged, a second
\* getConfig() call in a row returned a configuration whose ignore lines came from the
\* ignore file
C12_Witness ==
  /\ calls.again
  /\ result.status = "ok"
  /\ Has(result.config, "ignoreFile")
  /\ Len(result.config["ignore"].patterns) > 1
  /\ UsesProfile(config, profile)
  /\ profile \in DOMAIN config["profiles"]
  /\ schedulers # << >>
  /\ pendingTransferTasks # {}

\* the keys of the raw configuration getConfig() hands on as they are
PlainKeys(c) == DOMAIN c \ {"profiles", "agent", "ignore"}

\* C13: getConfig() resolves for the profile selected at the time of the call: when
\* the selection is a key of the profile map the returned configuration has every field
\* of that profile's record and, for the fields the record lacks, the base value; when
\* no profile is selected it has the base values only. That holds whatever profile an
\* earlier call was resolved for.
C13_ResolvesCurrentProfile ==
  [][(CallGetConfig /\ result'.status = "ok") =>
       LET merged == result'.config
           selected == IF UsesProfile(config, profile) /\ profile \in DOMAIN config["profiles"]
                         THEN config["profiles"][profile]
                         ELSE << >>
       IN  (profile = Null \/ selected # << >>) =>
             /\ DOMAIN merged =
                  ((DOMAIN config \ {"profiles"}) \cup DOMAIN selected) \cup {"ignore"}
             /\ \A k \in DOMAIN selected \ {"ignore"} : merged[k] = selected[k]
             /\ \A k \in PlainKeys(config) \ DOMAIN selected : merged[k] = config[k]]_vars

\* C13 witness: getConfig() returned under profile "dev", whose host overrides the
\* base host, right after a call had returned under another selection
C13_Witness ==
  /\ result.status = "ok"
  /\ calls.from \notin {NoProfileChange, profile}
  /\ profile = "dev"
  /\ Has(config, "host")
  /\ result.config["host"] # config["host"]

\* C13 witness: getConfig() returned the unmerged base right after a call had returned
\* under profile "dev"
C13_WitnessToNone ==
  /\ result.status = "ok"
  /\ calls.from = "dev"
  /\ profile = Null
  /\ Has(config, "host")
  /\ HasProfile(config)
  /\ Has(config["profiles"]["dev"], "host")
  /\ result.config["host"] = config["host"]

\* the errors getConfig() throws before it resolves the ignore file
ThrownBeforeIgnore ==
  {"Environment variable not found", "Unkown Profile", "Config validation fail"}

\* the explicit pattern list of the raw configuration
IgnoreOf(c) == IF Has(c, "ignore") THEN c["ignore"] ELSE << >>

\* C14: a resolution of an ignoreFile path that is not cached while the file is missing
\* fails with the error naming the path and adds nothing to the cache; while a path is
\* cached, a resolution reads the disk zero times, leaves the entry as it is and returns
\* the explicit patterns followed by the cached lines, whatever the file has become;
\* between two evictions a path is read from disk at most once.
C14_IgnoreFileReadOnce ==
  /\ [](\A p \in Paths : reads[p] <= 1)
  /\ [][(Has(config, "ignoreFile") /\ (CallGetConfig \/ Dispose)) =>
          LET f == config["ignoreFile"] IN
            /\ f \in DOMAIN ignoreFileCache =>
                 /\ reads' = reads
                 /\ ignoreFileCache' = ignoreFileCache
                 /\ result'.status = "ok" =>
                      result'.config["ignore"].patterns = IgnoreOf(config) \o ignoreFileCache[f]
            /\ (f \notin DOMAIN ignoreFileCache /\ ~disk[f].exists) =>
                 /\ reads' = reads
                 /\ ignoreFileCache' = ignoreFileCache
                 /\ CallGetConfig =>
                      /\ result'.status = "error"
                      /\ \/ result'.error[1] \in ThrownBeforeIgnore
                         \/ result'.error = <<"File not found", f>>]_vars

\* C14 witness: getConfig() returned the cached lines of an ignore file that has been
\* deleted since it was read
C14_Witness ==
  /\ result.status = "ok"
  /\ Has(result.config, "ignoreFile")
  /\ ~disk[result.config["ignoreFile"]].exists
  /\ reads[result.config["ignoreFile"]] = 1
  /\ Len(result.config["ignore"].patterns) = 3

\* C14 witness: getConfig() failed for a missing ignore file
C14_WitnessMissing ==
  /\ result.status = "error"
  /\ result.error = <<"File not found", "f">>
  /\ ignoreFileCache = << >>

\* C15: setWatcherService(w) ends the registration held by the service installed before
\* and leaves exactly one registration, on w, made with the watcher configuration the
\* constructor stored; over any sequence of setWatcherService() and dispose() calls at
\* most one registration is live, and none is live when dispose() has ended.
C15_OneWatcherRegistration ==
  /\ [](Cardinality(watcherLive) <= 1)
  /\ [](disposed # "no" => watcherLive = {})
  /\ [][\A w \in 1..MaxWatchers :
          SetWatcherService(w) =>
            watcherLive' = {[service |-> w, config |-> WatcherConfig]}]_vars

\* C15 witness: after a dispose(), a service was installed in place of another one
\* while the selected profile carries a watcher configuration of its own
C15_Witness ==
  /\ replacedWatcher \notin {0, watcherService}
  /\ watcherLive = {[service |-> watcherService, config |-> "w0"]}
  /\ removed # {}
  /\ UsesProfile(config, profile)
  /\ profile \in DOMAIN config["profiles"]
  /\ Has(config["profiles"][profile], "watcher")

\* C16: an UploadFile.handleFile invocation has called refreshRemoteExplorer exactly
\* once when its upload has resolved, and not at all while the upload is pending or
\* when it rejected.
C16_RefreshAfterUpload ==
  \A r \in UResource :
    /\ upload[r] = "resolved" => refreshed[r] = 1
    /\ upload[r] \in {"pending", "rejected"} => refreshed[r] = 0

\* C16 witness: one invocation has refreshed after its upload, another one's upload
\* rejected, a third is still waiting
C16_Witness ==
  \E r, q, w \in UResource :
    /\ upload[r] = "resolved" /\ refreshed[r] = 1
    /\ upload[q] = "rejected"
    /\ upload[w] = "pending"

\* C17: the ignore predicate built from a non-empty pattern list returns false for the
\* local base directory itself and for the remote root path itself, whatever the
\* patterns.
C17_RootsNeverIgnored ==
  asked \in {baseDir, config["remotePath"]} => answer = FALSE

\* C18: a cancelTransferTasks() call is one step that starts and finishes no task: when
\* it returns, every scheduler that was on the active list has an empty queue, the list
\* is empty, every task that was in the pending set has received exactly one cancel()
\* more and no other task any, and the pending set is empty; no task is started in
\* that step, and a task a cancel took out of a queue is in no queue and not started
\* ever after, also when the signalled tasks stop and free their slots.
C18_CancelDrainsAndSignals ==
  /\ [][CancelTransferTasks =>
          /\ \A s \in Range(schedulers) : queue'[s] = << >>
          /\ schedulers' = << >>
          /\ \A t \in TaskId :
               cancelled'[t] = cancelled[t] + (IF t \in pendingTransferTasks THEN 1 ELSE 0)
          /\ pendingTransferTasks' = {}
          /\ before' = before
          /\ after' = after
          /\ running' = running]_vars
  /\ [][\A t \in queuedAtCancel :
          (t \notin AllQueued /\ before[t] = 0) =>
            (t \notin UNION {Range(queue'[s]) : s \in SchedId} /\ before'[t] = 0)]_vars

\* C18 witness: a cancel has returned that took a task out of the queue of a scheduler
\* while that scheduler's running task got its cancel signal
C18_Witness ==
  \E s \in SchedId, t, u \in TaskId :
    /\ owner[t] = s /\ owner[u] = s
    /\ t \in running[s] /\ cancelled[t] = 1
    /\ u \in queuedAtCancel /\ before[u] = 0
    /\ \A r \in SchedId : queue[r] = << >>
    /\ schedulers = << >>
    /\ pendingTransferTasks = {}

\* C18 witness: the signalled task has stopped and the run() resolved, the task taken
\* out of the queue not having been started
C18_WitnessAfterStop ==
  \E s \in SchedId, t, u \in TaskId :
    /\ owner[t] = s /\ owner[u] = s
    /\ lastResolved = s
    /\ after[t] # "none"
    /\ u \in queuedAtCancel /\ before[u] = 0 /\ u \notin AllQueued

\* tasks whose BEFORE_TRANSFER was emitted and whose AFTER_TRANSFER was not
InTransfer == {t \in TaskId : before[t] > 0 /\ after[t] = "none"}

\* C19: getPendingTransferTasks() holds only tasks whose beforeTransfer was emitted and
\* whose afterTransfer was not, and every such task that no cancelTransferTasks() has
\* signalled (all of them when there was no cancel); a task whose afterTransfer fired is
\* not in the set; afterTransfer is emitted for a task only once, and only after its
\* beforeTransfer.
C19_PendingIsInTransfer ==
  /\ [](GetPendingTransferTasks \subseteq InTransfer)
  /\ [](GetPendingTransferTasks = {t \in InTransfer : cancelled[t] = 0})
  /\ [](\A t \in TaskId : after[t] # "none" => t \notin GetPendingTransferTasks)
  /\ [][\A t \in TaskId, err \in Outcome :
          TaskFinish(t, err) => (after[t] = "none" /\ before[t] > 0)]_vars
  /\ [][\A t \in TaskId : after[t] # "none" => after'[t] = after[t]]_vars

\* C19 witness: with no cancel so far, one task is in the pending set while a task of
\* another scheduler has had its afterTransfer
C19_Witness ==
  \E t, u \in TaskId :
    /\ t \in GetPendingTransferTasks
    /\ after[u] # "none"
    /\ owner[t] # owner[u]
    /\ queuedAtCancel = {}
    /\ \A x \in TaskId : cancelled[x] = 0

\* C19 witness: a task signalled by a cancel is still in transfer and no longer in the
\* pending set, while a task started after the cancel is
C19_WitnessAfterCancel ==
  \E t, u \in TaskId :
    /\ t \in InTransfer /\ cancelled[t] = 1 /\ t \notin GetPendingTransferTasks
    /\ u \in GetPendingTransferTasks

\* C20: whenever no scheduler has a queued or running task and no run() is outstanding,
\* isTransferring() is false.
C20_IdleMeansNotTransferring ==
  ( /\ \A s \in SchedId : SchedulerSize(s) = 0
    /\ \A s \in SchedId : ~awaiting[s] ) => ~IsTransferring

====
